---- MODULE Spec2Model ----
(***************************************************************************)
(* Model of the UVM assembler (uvm_asm.py), interpreter (uvm_interp.py)    *)
(* and the front-end handler that chains them (uvm-ui.py).                 *)
(***************************************************************************)
EXTENDS Integers, Sequences, FiniteSets

VARIABLES
    bytecode,   \* execute's argument: a sequence of bytes
    pc,         \* position of the caller / of execute
    registers,  \* execute's local list of 128 ints, a function on 0..127
    memory,     \* execute's local growable list, a sequence (cell k is memory[k+1])
    i,          \* byte offset of the next 3-byte word of the loop
    outcome,    \* how the current call ended: a result or the exception raised
    history,    \* outcomes of the earlier calls of execute on this bytecode
    text,       \* program text of the front-end: a sequence of lines of characters
    ir,         \* full_asm's second result: the instructions' fields
    instr,      \* an Instruction record handed to to_bytes
    encoded,    \* what to_bytes returned or raised
    decoded     \* the fields execute extracts from the encoded word

vars == <<bytecode, pc, registers, memory, i, outcome, history, text, ir,
          instr, encoded, decoded>>

execVars == <<bytecode, pc, registers, memory, i, outcome, history, text, ir>>
asmVars == <<instr, encoded, decoded>>

None == [kind |-> "none"]

-----------------------------------------------------------------------------
(* Integer helpers: Python's <<, >>, & and | on non-negative integers.     *)

RECURSIVE Pow2(_)
Pow2(n) == IF n = 0 THEN 1 ELSE 2 * Pow2(n - 1)

Shl(x, n) == x * Pow2(n)

Shr(x, n) == x \div Pow2(n)

RECURSIVE BitAnd(_, _)
BitAnd(a, b) ==
    IF a = 0 \/ b = 0 THEN 0
    ELSE ((a % 2) * (b % 2)) + 2 * BitAnd(a \div 2, b \div 2)

RECURSIVE BitOr(_, _)
BitOr(a, b) ==
    IF a = 0 THEN b
    ELSE IF b = 0 THEN a
    ELSE (IF a % 2 = 1 \/ b % 2 = 1 THEN 1 ELSE 0) + 2 * BitOr(a \div 2, b \div 2)

mask(bits) == Shl(1, bits) - 1

Min(a, b) == IF a < b THEN a ELSE b

\* bytes[lo:hi] of Python: clipped at the end of the sequence
Slice(s, lo, hi) == SubSeq(s, lo + 1, Min(hi, Len(s)))

\* int.from_bytes(s, "little")
RECURSIVE FromBytesLittle(_)
FromBytesLittle(s) ==
    IF s = <<>> THEN 0 ELSE Head(s) + 256 * FromBytesLittle(Tail(s))

\* list indexing of Python: k in -len..len-1, negative k counts from the end
PyIndexOK(s, k) == -Len(s) <= k /\ k < Len(s)

PyPos(s, k) == IF k >= 0 THEN k + 1 ELSE Len(s) + k + 1

-----------------------------------------------------------------------------
(* uvm_interp.py                                                           *)

NumRegisters == 128
InitialMemory == 256
WordBytes == 3

\* the keys of OPCODES
InterpOpcodes == {14, 4, 2, 1}

NewRegisters == [r \in 0 .. NumRegisters - 1 |-> 0]

\* mutant: the memory list is a module-level list that a later call reuses
NewMemoryReused == IF memory = <<>> THEN [k \in 1 .. InitialMemory |-> 0] ELSE memory

NewMemory == [k \in 1 .. InitialMemory |-> 0]

\* mutant: extends to addr cells, one short of covering addr
ensure_memory_size_short(mem, addr) ==
    IF addr >= Len(mem)
    THEN mem \o [k \in 1 .. (addr - Len(mem)) |-> 0]
    ELSE mem

ensure_memory_size(mem, addr) ==
    IF addr >= Len(mem)
    THEN mem \o [k \in 1 .. (addr + 1 - Len(mem)) |-> 0]
    ELSE mem

\* mutant: only a remainder of 1 is refused
FormatOKLoose(b) == Len(b) % WordBytes # 1

FormatOK(b) == Len(b) % WordBytes = 0

Command == FromBytesLittle(Slice(bytecode, i, i + WordBytes))

\* mutant: the opcode taken from 3 bits
OpcodeMask3(command) == BitAnd(command, mask(3))

Opcode(command) == BitAnd(command, mask(4))

\* the fields execute extracts, per opcode
DecodeLoadConst(command) ==
    [reg |-> BitAnd(Shr(command, 4), mask(7)),
     const |-> BitAnd(Shr(command, 11), mask(12))]

DecodeReadMem(command) ==
    [dst |-> BitAnd(Shr(command, 4), mask(7)),
     ptr_reg |-> BitAnd(Shr(command, 11), mask(7))]

DecodeWriteMem(command) ==
    [ptr_reg |-> BitAnd(Shr(command, 4), mask(7)),
     src_reg |-> BitAnd(Shr(command, 11), mask(7))]

\* mutant: base_reg taken from bit 8
DecodeSubMemShifted(command) ==
    [offset |-> BitAnd(Shr(command, 4), mask(5)),
     base_reg |-> BitAnd(Shr(command, 8), mask(7)),
     src_reg |-> BitAnd(Shr(command, 16), mask(7))]

DecodeSubMem(command) ==
    [offset |-> BitAnd(Shr(command, 4), mask(5)),
     base_reg |-> BitAnd(Shr(command, 9), mask(7)),
     src_reg |-> BitAnd(Shr(command, 16), mask(7))]

\* the exception of the unknown-opcode branch: its message holds the opcode only
UnknownOpcodeError(opcode) ==
    [kind |-> "ValueError", what |-> "unknown opcode", opcode |-> opcode]

FormatError == [kind |-> "ValueError", what |-> "length not a multiple of 3"]

IndexError == [kind |-> "IndexError"]

Fetching == pc = "loop" /\ i < Len(bytecode)

\* execute is entered: the locals are allocated, then the length is checked
ExecEnter ==
    /\ pc = "call"
    /\ FormatOK(bytecode)
    /\ registers' = NewRegisters
    /\ memory' = NewMemory
    /\ i' = 0
    /\ pc' = "loop"
    /\ UNCHANGED <<bytecode, outcome, history, text, ir>>

ExecFormatError ==
    /\ pc = "call"
    /\ ~FormatOK(bytecode)
    /\ registers' = NewRegisters
    /\ memory' = NewMemory
    /\ i' = 0
    /\ pc' = "raised"
    /\ outcome' = FormatError
    /\ UNCHANGED <<bytecode, history, text, ir>>

ExecUnknownOpcode ==
    /\ Fetching
    /\ Opcode(Command) \notin InterpOpcodes
    /\ pc' = "raised"
    /\ outcome' = UnknownOpcodeError(Opcode(Command))
    /\ UNCHANGED <<bytecode, registers, memory, i, history, text, ir>>

ExecLoadConst ==
    /\ Fetching
    /\ Opcode(Command) = 14
    /\ LET f == DecodeLoadConst(Command) IN
         registers' = [registers EXCEPT ![f.reg] = f.const]
    /\ i' = i + WordBytes
    /\ UNCHANGED <<bytecode, pc, memory, outcome, history, text, ir>>

ExecReadMem ==
    /\ Fetching
    /\ Opcode(Command) = 4
    /\ LET f == DecodeReadMem(Command)
           addr == registers[f.ptr_reg]
           grown == ensure_memory_size(memory, addr)
       IN  /\ memory' = grown
           /\ IF PyIndexOK(grown, addr)
              THEN /\ registers' = [registers EXCEPT ![f.dst] = grown[PyPos(grown, addr)]]
                   /\ i' = i + WordBytes
                   /\ UNCHANGED <<pc, outcome>>
              ELSE /\ pc' = "raised"
                   /\ outcome' = IndexError
                   /\ UNCHANGED <<registers, i>>
    /\ UNCHANGED <<bytecode, history, text, ir>>

ExecWriteMem ==
    /\ Fetching
    /\ Opcode(Command) = 2
    /\ LET f == DecodeWriteMem(Command)
           addr == registers[f.ptr_reg]
           grown == ensure_memory_size(memory, addr)
       IN  IF PyIndexOK(grown, addr)
           THEN /\ memory' = [grown EXCEPT ![PyPos(grown, addr)] = registers[f.src_reg]]
                /\ i' = i + WordBytes
                /\ UNCHANGED <<pc, outcome>>
           ELSE /\ memory' = grown
                /\ pc' = "raised"
                /\ outcome' = IndexError
                /\ UNCHANGED i
    /\ UNCHANGED <<bytecode, registers, history, text, ir>>

ExecSubMem ==
    /\ Fetching
    /\ Opcode(Command) = 1
    /\ LET f == DecodeSubMem(Command)
           addr == registers[f.base_reg] + f.offset
           grown == ensure_memory_size(memory, addr)
       IN  IF PyIndexOK(grown, addr)
           THEN /\ memory' = [grown EXCEPT ![PyPos(grown, addr)] =
                                  grown[PyPos(grown, addr)] - registers[f.src_reg]]
                /\ i' = i + WordBytes
                /\ UNCHANGED <<pc, outcome>>
           ELSE /\ memory' = grown
                /\ pc' = "raised"
                /\ outcome' = IndexError
                /\ UNCHANGED i
    /\ UNCHANGED <<bytecode, registers, history, text, ir>>

ExecReturn ==
    /\ pc = "loop"
    /\ i >= Len(bytecode)
    /\ pc' = "returned"
    /\ outcome' = [kind |-> "result", registers |-> registers, memory |-> memory]
    /\ UNCHANGED <<bytecode, registers, memory, i, history, text, ir>>

-----------------------------------------------------------------------------
(* uvm_asm.py                                                              *)

\* the values of OPCODES
AsmOpcode(name) ==
    CASE name = "load_const" -> 14
      [] name = "read_mem" -> 4
      [] name = "write_mem" -> 2
      [] name = "sub_mem" -> 1

\* mutant: the upper end of the range off by one
RangeOKInclusive(value, bits) == 0 <= value /\ value <= Shl(1, bits)

\* _ensure_range's condition
RangeOK(value, bits) == 0 <= value /\ value <= mask(bits)

\* _ensure_range's exception: its message holds the name, the value and the width
RangeError(name, value, bits) ==
    [kind |-> "ValueError", what |-> "range", field |-> name, value |-> value,
     bits |-> bits]

\* mutant: the bytes in big-endian order
ToBytesBig(command) ==
    IF command < 0 \/ command >= Pow2(8 * WordBytes)
    THEN [kind |-> "OverflowError"]
    ELSE [kind |-> "bytes",
          bytes |-> <<(command \div 65536) % 256, (command \div 256) % 256,
                      command % 256>>]

\* int.to_bytes(3, "little")
ToBytesLittle(command) ==
    IF command < 0 \/ command >= Pow2(8 * WordBytes)
    THEN [kind |-> "OverflowError"]
    ELSE [kind |-> "bytes",
          bytes |-> <<command % 256, (command \div 256) % 256,
                      (command \div 65536) % 256>>]

PackLoadConst(ins) == BitOr(BitOr(ins.A, Shl(ins.B, 4)), Shl(ins.C, 11))

PackReadMem(ins) == BitOr(BitOr(ins.A, Shl(ins.B, 4)), Shl(ins.C, 11))

PackWriteMem(ins) == BitOr(BitOr(ins.A, Shl(ins.B, 4)), Shl(ins.C, 11))

PackSubMem(ins) ==
    BitOr(BitOr(BitOr(ins.A, Shl(ins.B, 4)), Shl(ins.C, 9)), Shl(ins.D, 16))

\* Instruction.to_bytes: the bytes, or the exception of the first check that fails
to_bytes(ins) ==
    CASE ins.name = "load_const" ->
           IF ~RangeOK(ins.B, 7) THEN RangeError("B (reg)", ins.B, 7)
           ELSE IF ~RangeOK(ins.C, 12) THEN RangeError("C (const)", ins.C, 12)
           ELSE ToBytesLittle(PackLoadConst(ins))
      [] ins.name = "read_mem" ->
           IF ~RangeOK(ins.B, 7) THEN RangeError("B (dst reg)", ins.B, 7)
           ELSE IF ~RangeOK(ins.C, 7) THEN RangeError("C (addr reg)", ins.C, 7)
           ELSE ToBytesLittle(PackReadMem(ins))
      [] ins.name = "write_mem" ->
           IF ~RangeOK(ins.B, 7) THEN RangeError("B (addr reg)", ins.B, 7)
           ELSE IF ~RangeOK(ins.C, 7) THEN RangeError("C (src reg)", ins.C, 7)
           ELSE ToBytesLittle(PackWriteMem(ins))
      [] ins.name = "sub_mem" ->
           IF ~RangeOK(ins.B, 5) THEN RangeError("B (offset)", ins.B, 5)
           ELSE IF ~RangeOK(ins.C, 7) THEN RangeError("C (base reg)", ins.C, 7)
           ELSE IF ~RangeOK(ins.D, 7) THEN RangeError("D (src reg)", ins.D, 7)
           ELSE ToBytesLittle(PackSubMem(ins))
      [] OTHER -> [kind |-> "ValueError", what |-> "unknown operation"]

\* Instruction.fields: D is present only when it is not None
fields(ins) ==
    IF "D" \in DOMAIN ins
    THEN [op |-> ins.name, A |-> ins.A, B |-> ins.B, C |-> ins.C, D |-> ins.D]
    ELSE [op |-> ins.name, A |-> ins.A, B |-> ins.B, C |-> ins.C]

(* The regular expressions, as token sequences matched from the start of   *)
(* the line to its end: a literal character, \s* or a named group (\d+).   *)
(* After \d+ no pattern continues with a digit and after \s* none          *)
(* continues with white space, so matching greedily never backtracks.      *)
Lit(c) == [t |-> "lit", c |-> c]
WS == [t |-> "ws"]
Num(g) == [t |-> "num", g |-> g]

MemOpen == <<Lit("m"), Lit("e"), Lit("m"), Lit("["), WS, Lit("r")>>

LOAD_CONST_RE == <<Lit("r"), Num("B"), WS, Lit("="), WS, Num("C")>>

READ_RE ==
    <<Lit("r"), Num("B"), WS, Lit("="), WS>> \o MemOpen \o <<Num("C"), WS, Lit("]")>>

WRITE_RE ==
    MemOpen \o <<Num("B"), WS, Lit("]"), WS, Lit("="), WS, Lit("r"), Num("C")>>

SUB_RE ==
    MemOpen \o <<Num("C"), WS, Lit("+"), WS, Num("B"), WS, Lit("]"), WS,
                 Lit("-"), Lit("="), WS, Lit("r"), Num("D")>>

SUB_EQ_RE ==
    MemOpen \o <<Num("C"), WS, Lit("+"), WS, Num("B"), WS, Lit("]"), WS, Lit("="), WS>>
    \o MemOpen \o <<Num("C2"), WS, Lit("+"), WS, Num("B2"), WS, Lit("]"), WS,
                    Lit("-"), WS, Lit("r"), Num("D")>>

DigitChars == <<"0", "1", "2", "3", "4", "5", "6", "7", "8", "9">>

IsDigit(c) == \E d \in 1 .. 10 : DigitChars[d] = c

DigitVal(c) == (CHOOSE d \in 1 .. 10 : DigitChars[d] = c) - 1

IsSpace(c) == c \in {" ", "\t"}

RECURSIVE SkipSpaces(_, _)
SkipSpaces(s, p) ==
    IF p <= Len(s) /\ IsSpace(s[p]) THEN SkipSpaces(s, p + 1) ELSE p

RECURSIVE SkipDigits(_, _)
SkipDigits(s, p) ==
    IF p <= Len(s) /\ IsDigit(s[p]) THEN SkipDigits(s, p + 1) ELSE p

\* int() of the digits s[p .. q-1]
RECURSIVE IntOf(_, _, _)
IntOf(s, p, q) ==
    IF q <= p THEN 0 ELSE 10 * IntOf(s, p, q - 1) + DigitVal(s[q - 1])

NoGroups == [B |-> -1, C |-> -1, D |-> -1, B2 |-> -1, C2 |-> -1]

NoMatch == [ok |-> FALSE]

\* re.match of a pattern at position p of s: the groups, or no match
RECURSIVE Match(_, _, _, _)
Match(pat, s, p, groups) ==
    IF pat = <<>>
    THEN IF p > Len(s) THEN [ok |-> TRUE, g |-> groups] ELSE NoMatch
    ELSE LET tok == Head(pat) IN
         CASE tok.t = "lit" ->
                IF p <= Len(s) /\ s[p] = tok.c
                THEN Match(Tail(pat), s, p + 1, groups)
                ELSE NoMatch
           [] tok.t = "ws" -> Match(Tail(pat), s, SkipSpaces(s, p), groups)
           [] tok.t = "num" ->
                LET q == SkipDigits(s, p) IN
                IF q = p THEN NoMatch
                ELSE Match(Tail(pat), s, q, [groups EXCEPT ![tok.g] = IntOf(s, p, q)])

\* mutant: the comment is not cut off
BeforeHashKeep(s) == s

\* line.split("#", 1)[0]
RECURSIVE BeforeHash(_)
BeforeHash(s) ==
    IF s = <<>> \/ Head(s) = "#" THEN <<>> ELSE <<Head(s)>> \o BeforeHash(Tail(s))

\* str.strip
RECURSIVE Strip(_)
Strip(s) ==
    IF s = <<>> THEN s
    ELSE IF IsSpace(Head(s)) THEN Strip(Tail(s))
    ELSE IF IsSpace(s[Len(s)]) THEN Strip(SubSeq(s, 1, Len(s) - 1))
    ELSE s

Instruction3(name, b, c) == [name |-> name, A |-> AsmOpcode(name), B |-> b, C |-> c]

Instruction4(name, b, c, d) ==
    [name |-> name, A |-> AsmOpcode(name), B |-> b, C |-> c, D |-> d]

ParseError(what) == [kind |-> "ValueError", what |-> what]

\* parse_line: an Instruction, None for an empty line, or the exception raised
parse_line(raw) ==
    LET line == Strip(BeforeHash(raw))
        lc == Match(LOAD_CONST_RE, line, 1, NoGroups)
        rd == Match(READ_RE, line, 1, NoGroups)
        wr == Match(WRITE_RE, line, 1, NoGroups)
        sb == Match(SUB_RE, line, 1, NoGroups)
        se == Match(SUB_EQ_RE, line, 1, NoGroups)
    IN  IF line = <<>> THEN None
        ELSE IF lc.ok THEN Instruction3("load_const", lc.g.B, lc.g.C)
        ELSE IF rd.ok THEN Instruction3("read_mem", rd.g.B, rd.g.C)
        ELSE IF wr.ok THEN Instruction3("write_mem", wr.g.B, wr.g.C)
        ELSE IF sb.ok THEN Instruction4("sub_mem", sb.g.B, sb.g.C, sb.g.D)
        ELSE IF se.ok
        THEN IF se.g.B # se.g.B2 \/ se.g.C # se.g.C2
             THEN ParseError("addresses differ")
             ELSE Instruction4("sub_mem", se.g.B, se.g.C, se.g.D)
        ELSE ParseError("cannot parse line")

IsInstruction(x) == "name" \in DOMAIN x

IsRaised(x) == "kind" \in DOMAIN x /\ x.kind \notin {"none", "bytes", "ok"}

\* asm: the instructions' bytes joined, or the first exception
RECURSIVE asm(_)
asm(instrs) ==
    IF instrs = <<>> THEN [kind |-> "bytes", bytes |-> <<>>]
    ELSE LET first == to_bytes(Head(instrs)) IN
         IF first.kind # "bytes" THEN first
         ELSE LET rest == asm(Tail(instrs)) IN
              IF rest.kind # "bytes" THEN rest
              ELSE [kind |-> "bytes", bytes |-> first.bytes \o rest.bytes]

\* the loop of full_asm over text.splitlines(): the list ir, or the first exception
RECURSIVE ParseLines(_, _)
ParseLines(lines, acc) ==
    IF lines = <<>> THEN [kind |-> "ok", ir |-> acc]
    ELSE LET x == parse_line(Head(lines)) IN
         IF IsInstruction(x) THEN ParseLines(Tail(lines), Append(acc, x))
         ELSE IF IsRaised(x) THEN x
         ELSE ParseLines(Tail(lines), acc)

full_asm(lines) ==
    LET parsed == ParseLines(lines, <<>>) IN
    IF parsed.kind # "ok" THEN parsed
    ELSE LET packed == asm(parsed.ir) IN
         IF packed.kind # "bytes" THEN packed
         ELSE [kind |-> "ok", bytecode |-> packed.bytes,
               ir |-> [k \in 1 .. Len(parsed.ir) |-> fields(parsed.ir[k])]]

-----------------------------------------------------------------------------
(* uvm-ui.py                                                               *)

\* DEMO after .strip(), as the lines splitlines() gives; a "?" stands for each
\* non-ASCII character of the comments
DEMO ==
    <<
      <<"#", " ", "?", "?", "?", "?", "?", "?", "?", " ", "?", "4", ":", " ", "?", "?", "?", "?", "?", "?", "?", " ", "?", "?", "?", "?", "?", "?", "?", "?", "?", " ", "?", "?", " ", "?", "?", "?", "?", "?", "?">>,
      <<"r", "0", " ", "=", " ", "0", " ", " ", " ", " ", " ", " ", " ", " ", " ", " ", "#", " ", "?", "?", "?", "?", "?", "?", "?", " ", "?", "?", "?", "?", "?">>,
      <<"r", "1", " ", "=", " ", "1", "0", " ", " ", " ", " ", " ", " ", " ", " ", " ", "#", " ", "?", "?", "?", "?", "?", "?", "?", "?">>,
      <<"m", "e", "m", "[", "r", "0", "]", " ", "=", " ", "r", "1", " ", " ", " ", " ", "#", " ", "m", "e", "m", "[", "0", "]", " ", "=", " ", "1", "0">>,
      <<"r", "2", " ", "=", " ", "3">>,
      <<"m", "e", "m", "[", "r", "0", " ", "+", " ", "0", "]", " ", "-", "=", " ", "r", "2", " ", " ", " ", "#", " ", "m", "e", "m", "[", "0", "]", " ", "=", " ", "1", "0", " ", "-", " ", "3">>,
      <<"r", "3", " ", "=", " ", "m", "e", "m", "[", "r", "0", "]", " ", " ", " ", "#", " ", "?", "?", "?", "?", "?", "?", " ", "?", "?", "?", "?", "?", "?", "?", "?", "?", " ", "?", " ", "r", "3">>
    >>

\* lines typed into the program's text area besides DEMO's: out-of-range fields,
\* a line of no form, both spellings of the equational subtraction, a comment
ExtraLines ==
    {
      <<"r", "1", " ", "=", " ", "5", "0", "0", "0">>,
      <<"r", "2", "0", "0", " ", "=", " ", "1">>,
      <<"r", "1", " ", "=", "=", " ", "2">>,
      <<"m", "e", "m", "[", "r", "0", " ", "+", " ", "0", "]", " ", "=", " ", "m", "e", "m", "[", "r", "0", " ", "+", " ", "0", "]", " ", "-", " ", "r", "2">>,
      <<"m", "e", "m", "[", "r", "0", " ", "+", " ", "1", "]", " ", "=", " ", "m", "e", "m", "[", "r", "0", " ", "+", " ", "0", "]", " ", "-", " ", "r", "2">>,
      <<" ", " ", "#", " ", "o", "n", "l", "y", " ", "a", " ", "c", "o", "m", "m", "e", "n", "t">>
    }

\* the lines of s at the positions of keep, in order
RECURSIVE Pick(_, _, _)
Pick(s, keep, k) ==
    IF k > Len(s) THEN <<>>
    ELSE (IF k \in keep THEN <<s[k]>> ELSE <<>>) \o Pick(s, keep, k + 1)

\* the texts the text area holds when the button is pressed: DEMO, DEMO with
\* lines deleted, DEMO with a line added
UITexts ==
    {Pick(DEMO, keep, 1) : keep \in SUBSET (1 .. Len(DEMO))}
    \cup {Append(DEMO, l) : l \in ExtraLines}

\* click: full_asm(program), then execute(bytecode) (the Exec actions)
UIClick ==
    /\ pc = "ui"
    /\ LET r == full_asm(text) IN
         IF r.kind = "ok"
         THEN /\ bytecode' = r.bytecode
              /\ ir' = r.ir
              /\ pc' = "call"
              /\ UNCHANGED outcome
         ELSE /\ pc' = "asm_raised"
              /\ outcome' = r
              /\ UNCHANGED <<bytecode, ir>>
    /\ UNCHANGED <<registers, memory, i, history, text>>

-----------------------------------------------------------------------------
(* Inputs and specifications                                               *)

MaxInstr == 4
MaxRuns == 2
Slack == 1

\* a 24-bit word as the 3 bytes of a file
FileWord(n) == <<n % 256, (n \div 256) % 256, (n \div 65536) % 256>>

\* words of a bytecode file: opcode + fields at their bit positions
FileWords ==
    { FileWord(14 + 16 * 1 + 2048 * 300),          \* r1 = 300
      FileWord(14 + 16 * 1 + 2048 * 3),            \* r1 = 3
      FileWord(1 + 16 * 0 + 512 * 0 + 65536 * 1),  \* mem[r0 + 0] -= r1
      FileWord(4 + 16 * 0 + 2048 * 0),             \* r0 = mem[r0]
      FileWord(2 + 16 * 0 + 2048 * 1),             \* mem[r0] = r1
      FileWord(7 + 16 * 1 + 2048 * 3) }            \* opcode 7: none

\* bytes after the last whole word of a file
TrailingBytes == {<<>>, <<14>>, <<14, 8>>}

RECURSIVE Programs(_)
Programs(n) ==
    IF n = 0 THEN {<<>>}
    ELSE LET shorter == Programs(n - 1) IN
         shorter \cup {p \o w : p \in {q \in shorter : Len(q) = WordBytes * (n - 1)},
                                w \in FileWords}

FileBytecodes == {p \o t : p \in Programs(MaxInstr), t \in TrailingBytes}

\* the caller runs execute again on the same bytecode
CallAgain ==
    /\ pc \in {"returned", "raised"}
    /\ Len(history) + 1 < MaxRuns
    /\ history' = Append(history, outcome)
    /\ outcome' = None
    /\ pc' = "call"
    /\ UNCHANGED <<bytecode, registers, memory, i, text, ir>>

Init ==
    /\ \/ bytecode \in FileBytecodes /\ text = <<>> /\ pc = "call"
       \/ text \in UITexts /\ bytecode = <<>> /\ pc = "ui"
    /\ registers = <<>>
    /\ memory = <<>>
    /\ i = 0
    /\ outcome = None
    /\ history = <<>>
    /\ ir = <<>>
    /\ instr = None
    /\ encoded = None
    /\ decoded = None

Next ==
    \/ (UIClick /\ UNCHANGED asmVars)
    \/ (ExecEnter /\ UNCHANGED asmVars)
    \/ (ExecFormatError /\ UNCHANGED asmVars)
    \/ (ExecUnknownOpcode /\ UNCHANGED asmVars)
    \/ (ExecLoadConst /\ UNCHANGED asmVars)
    \/ (ExecReadMem /\ UNCHANGED asmVars)
    \/ (ExecWriteMem /\ UNCHANGED asmVars)
    \/ (ExecSubMem /\ UNCHANGED asmVars)
    \/ (ExecReturn /\ UNCHANGED asmVars)
    \/ (CallAgain /\ UNCHANGED asmVars)

Spec == Init /\ [][Next]_vars

(* The encoder alone: an Instruction drawn from values around the ends of  *)
(* each field's range, encoded by to_bytes and decoded as execute does.    *)

\* the operands of test()
TestOperands == {34, 686, 103, 29, 74, 62, 3, 13, 94}

FieldValues(bits) ==
    (-Slack .. Slack)
    \cup ((Pow2(bits) - Slack) .. (Pow2(bits) + Slack))
    \cup {Pow2(k) : k \in 0 .. bits}
    \cup {Pow2(k) - 1 : k \in 0 .. bits}
    \cup {v \in TestOperands : v < Pow2(bits)}

Instructions ==
    {Instruction3("load_const", b, c) : b \in FieldValues(7), c \in FieldValues(12)}
    \cup {Instruction3("read_mem", b, c) : b \in FieldValues(7), c \in FieldValues(7)}
    \cup {Instruction3("write_mem", b, c) : b \in FieldValues(7), c \in FieldValues(7)}
    \cup UNION {{Instruction4("sub_mem", b, c, d) : b \in FieldValues(5), c \in FieldValues(7)}
                  : d \in FieldValues(7)}

\* the opcode and fields execute extracts from a word
DecodeWord(command) ==
    LET op == Opcode(command) IN
    CASE op = 14 -> [opcode |-> op, f |-> DecodeLoadConst(command)]
      [] op = 4 -> [opcode |-> op, f |-> DecodeReadMem(command)]
      [] op = 2 -> [opcode |-> op, f |-> DecodeWriteMem(command)]
      [] op = 1 -> [opcode |-> op, f |-> DecodeSubMem(command)]
      [] OTHER -> [opcode |-> op]

AsmEncode ==
    /\ encoded = None
    /\ encoded' = to_bytes(instr)
    /\ UNCHANGED <<instr, decoded>>

AsmDecode ==
    /\ encoded.kind = "bytes"
    /\ decoded = None
    /\ decoded' = DecodeWord(FromBytesLittle(Slice(encoded.bytes, 0, WordBytes)))
    /\ UNCHANGED <<instr, encoded>>

InitAsm ==
    /\ instr \in Instructions
    /\ encoded = None
    /\ decoded = None
    /\ bytecode = <<>>
    /\ pc = "asm"
    /\ registers = <<>>
    /\ memory = <<>>
    /\ i = 0
    /\ outcome = None
    /\ history = <<>>
    /\ text = <<>>
    /\ ir = <<>>

NextAsm ==
    \/ (AsmEncode /\ UNCHANGED execVars)
    \/ (AsmDecode /\ UNCHANGED execVars)

SpecAsm == InitAsm /\ [][NextAsm]_vars

-----------------------------------------------------------------------------
(* Properties                                                              *)

\* the fields of the word at offset i, by their bit positions
WordAt(off) == bytecode[off + 1] + 256 * bytecode[off + 2] + 65536 * bytecode[off + 3]
Bits(w, lo, width) == (w \div Pow2(lo)) % Pow2(width)
KnownOpcode(w) == Bits(w, 0, 4) \in {14, 4, 2, 1}
AllZero(f) == \A x \in DOMAIN f : f[x] = 0
FreshState ==
    /\ DOMAIN registers = 0 .. 127 /\ AllZero(registers)
    /\ Len(memory) = 256 /\ AllZero(memory)
WellFormed ==
    /\ Len(bytecode) % 3 = 0
    /\ \A n \in 0 .. (Len(bytecode) \div 3) - 1 : KnownOpcode(WordAt(3 * n))
Executing == pc = "loop" /\ i + 3 <= Len(bytecode) /\ KnownOpcode(WordAt(i))
\* the index a memory instruction addresses
AccessAddr ==
    LET w == WordAt(i) IN
    CASE Bits(w, 0, 4) = 4 -> registers[Bits(w, 11, 7)]
      [] Bits(w, 0, 4) = 2 -> registers[Bits(w, 4, 7)]
      [] Bits(w, 0, 4) = 1 -> registers[Bits(w, 9, 7)] + Bits(w, 4, 5)
\* the widths of the operand fields of each kind
FieldWidths(name) ==
    CASE name = "load_const" -> [B |-> 7, C |-> 12]
      [] name = "read_mem" -> [B |-> 7, C |-> 7]
      [] name = "write_mem" -> [B |-> 7, C |-> 7]
      [] name = "sub_mem" -> [B |-> 5, C |-> 7, D |-> 7]
FieldInRange(ins, fld) == ins[fld] \in 0 .. Pow2(FieldWidths(ins.name)[fld]) - 1
InRange(ins) == \A fld \in DOMAIN FieldWidths(ins.name) : FieldInRange(ins, fld)
EncodedWord == encoded.bytes[1] + 256 * encoded.bytes[2] + 65536 * encoded.bytes[3]

\* C1: an in-range record of any kind, encoded by to_bytes and decoded with
\* execute's shifts and masks, gives back its opcode and every field.
RoundTrip ==
    (InRange(instr) /\ decoded # None) =>
        /\ decoded.opcode = instr.A
        /\ instr.A = AsmOpcode(instr.name)
        /\ CASE instr.name = "load_const" ->
                  decoded.f = [reg |-> instr.B, const |-> instr.C]
             [] instr.name = "read_mem" ->
                  decoded.f = [dst |-> instr.B, ptr_reg |-> instr.C]
             [] instr.name = "write_mem" ->
                  decoded.f = [ptr_reg |-> instr.B, src_reg |-> instr.C]
             [] instr.name = "sub_mem" ->
                  decoded.f = [offset |-> instr.B, base_reg |-> instr.C,
                               src_reg |-> instr.D]

RoundTripWitness ==
    /\ decoded # None
    /\ instr.name = "sub_mem" /\ instr.B = 31 /\ instr.C = 127 /\ instr.D = 127

\* C2: a record with any operand field outside [0, 2^width - 1] (2^width
\* included) never encodes: to_bytes raises a range error about a field that is
\* out of its width, and gives no bytes.
RangeEnforcement ==
    (encoded # None /\ ~InRange(instr)) =>
        /\ encoded.kind = "ValueError"
        /\ encoded.what = "range"
        /\ "bytes" \notin DOMAIN encoded
        /\ decoded = None
        /\ encoded.value \notin 0 .. Pow2(encoded.bits) - 1
        /\ \E fld \in DOMAIN FieldWidths(instr.name) :
              /\ encoded.value = instr[fld]
              /\ encoded.bits = FieldWidths(instr.name)[fld]

RangeEnforcementWitness ==
    /\ instr.name = "sub_mem" /\ instr.B = 31 /\ instr.C = 127 /\ instr.D = 128
    /\ encoded.kind = "ValueError"

\* C3: a buffer whose length is not a multiple of 3 is never executed: the run
\* ends in the format error with registers and memory still all zero, and no
\* result is returned.
FormatGuard ==
    (Len(bytecode) % 3 # 0) =>
        /\ pc \in {"call", "raised"}
        /\ outcome.kind # "result"
        /\ i = 0
        /\ registers # <<>> => FreshState
        /\ pc = "raised" => outcome = FormatError /\ FreshState
        /\ \A k \in 1 .. Len(history) : history[k] = FormatError

FormatGuardWitness ==
    /\ pc = "raised"
    /\ outcome = FormatError
    /\ Len(bytecode) = 3 * MaxInstr + 2
    /\ \A n \in 0 .. MaxInstr - 1 : KnownOpcode(WordAt(3 * n))

\* C4: a memory instruction that addresses k >= len(memory) leaves memory with
\* exactly k + 1 cells, the old cells unchanged and the cells from the old
\* length up to k zero; one that addresses k < len(memory) leaves the length
\* unchanged; a run starts with 256 cells and the length never decreases.
MemoryGrowth ==
    [][ /\ (Executing /\ Bits(WordAt(i), 0, 4) \in {4, 2, 1}) =>
              LET k == AccessAddr
                  n == Len(memory)
              IN  /\ k >= n =>
                        /\ Len(memory') = k + 1
                        /\ \A j \in 1 .. n : memory'[j] = memory[j]
                        /\ \A j \in n + 1 .. k : memory'[j] = 0
                  /\ k < n => Len(memory') = n
        /\ pc = "call" => Len(memory') = 256
        /\ pc # "call" => Len(memory') >= Len(memory)
      ]_vars

MemoryGrowthWitness ==
    /\ pc = "loop"
    /\ Len(memory) = 301
    /\ memory[301] = -300
    /\ memory[1] = 300

\* C5: to_bytes of an in-range record is exactly 3 bytes, the little-endian
\* bytes of the word with the opcode in bits 0-3 and the fields at the bit
\* positions of their kind, all other bits zero; the four records of test()
\* encode to the bytes test() expects.
EncodingLayout ==
    (InRange(instr) /\ encoded # None) =>
        /\ encoded.kind = "bytes"
        /\ Len(encoded.bytes) = 3
        /\ \A k \in 1 .. 3 : encoded.bytes[k] \in 0 .. 255
        /\ Bits(EncodedWord, 0, 4) = instr.A
        /\ CASE instr.name = "load_const" ->
                  /\ Bits(EncodedWord, 4, 7) = instr.B
                  /\ Bits(EncodedWord, 11, 12) = instr.C
                  /\ Bits(EncodedWord, 23, 1) = 0
             [] instr.name \in {"read_mem", "write_mem"} ->
                  /\ Bits(EncodedWord, 4, 7) = instr.B
                  /\ Bits(EncodedWord, 11, 7) = instr.C
                  /\ Bits(EncodedWord, 18, 6) = 0
             [] instr.name = "sub_mem" ->
                  /\ Bits(EncodedWord, 4, 5) = instr.B
                  /\ Bits(EncodedWord, 9, 7) = instr.C
                  /\ Bits(EncodedWord, 16, 7) = instr.D
                  /\ Bits(EncodedWord, 23, 1) = 0
        /\ instr = [name |-> "load_const", A |-> 14, B |-> 34, C |-> 686] =>
              encoded.bytes = <<46, 114, 21>>
        /\ instr = [name |-> "read_mem", A |-> 4, B |-> 103, C |-> 29] =>
              encoded.bytes = <<116, 238, 0>>
        /\ instr = [name |-> "write_mem", A |-> 2, B |-> 74, C |-> 62] =>
              encoded.bytes = <<162, 244, 1>>
        /\ instr = [name |-> "sub_mem", A |-> 1, B |-> 3, C |-> 13, D |-> 94] =>
              encoded.bytes = <<49, 26, 94>>

EncodingLayoutWitness ==
    /\ instr = [name |-> "sub_mem", A |-> 1, B |-> 3, C |-> 13, D |-> 94]
    /\ encoded.kind = "bytes"

DemoScenario ==
    (text = DEMO /\ pc # "ui") =>
        /\ pc \notin {"asm_raised", "raised"}
        /\ Len(ir) = 6
        /\ [k \in 1 .. 6 |-> ir[k].op] =
             <<"load_const", "load_const", "write_mem", "load_const", "sub_mem",
               "read_mem">>
        /\ bytecode = <<14, 0, 0, 30, 80, 0, 2, 8, 0, 46, 24, 0, 1, 0, 2, 52, 0, 0>>
        /\ pc = "returned" =>
              /\ memory[1] = 7 /\ registers[3] = 7
              /\ outcome.kind = "result"
              /\ outcome.memory[1] = 7 /\ outcome.registers[3] = 7

DemoScenarioWitness == text = DEMO /\ pc = "returned" /\ registers[3] = 7

\* C8: every run of execute starts from 128 zero registers and 256 zero cells,
\* whatever an earlier run left, and a run on the same bytecode ends as every
\* earlier one did: the same registers and memory, or the same failure.
Determinism ==
    /\ (pc = "loop" /\ i = 0) => FreshState
    /\ pc \in {"returned", "raised"} =>
          \A k \in 1 .. Len(history) : history[k] = outcome

DeterminismWitness ==
    /\ Len(history) = MaxRuns - 1
    /\ pc = "returned"
    /\ Len(outcome.memory) = 301
    /\ outcome.registers[0] = 300

\* C9: a buffer of whole words with known opcodes always runs to the end: no
\* register or memory access fails.
NoAccessFailure == WellFormed => pc # "raised"

\* C10: the effect and frame of each instruction: LoadConst sets registers[reg]
\* only; ReadMem sets registers[dst] to the cell at index addr and changes no
\* existing cell; WriteMem and SubMem set the cell at index addr, leave the
\* registers alone and change no other cell.
InstructionEffects ==
    [][ Executing =>
          LET w == WordAt(i)
              op == Bits(w, 0, 4)
              addr == AccessAddr
              old == IF addr < Len(memory) THEN memory[addr + 1] ELSE 0
              others == \A j \in 1 .. Len(memory) :
                            j # addr + 1 => memory'[j] = memory[j]
          IN  CASE op = 14 ->
                     /\ registers' = [registers EXCEPT ![Bits(w, 4, 7)] = Bits(w, 11, 12)]
                     /\ memory' = memory
                [] op = 4 ->
                     /\ addr \in 0 .. Len(memory') - 1
                     /\ registers' = [registers EXCEPT ![Bits(w, 4, 7)] = memory'[addr + 1]]
                     /\ \A j \in 1 .. Len(memory) : memory'[j] = memory[j]
                [] op = 2 ->
                     /\ addr \in 0 .. Len(memory') - 1
                     /\ memory'[addr + 1] = registers[Bits(w, 11, 7)]
                     /\ registers' = registers
                     /\ others
                [] op = 1 ->
                     /\ addr \in 0 .. Len(memory') - 1
                     /\ memory'[addr + 1] = old - registers[Bits(w, 16, 7)]
                     /\ registers' = registers
                     /\ others
      ]_vars

====
